---- MODULE Spec2Model ----
(***************************************************************************)
(* The prime field F_p of app/crypto/prime_field.py, the number utilities  *)
(* of app/crypto/utils.py it rests on, and the BLS orchestrator of         *)
(* app/crypto/bls.py, as a state machine: a Python session that constructs *)
(* PrimeField and FieldElement objects, applies the operators to them and  *)
(* constructs the signature scheme.                                        *)
(*                                                                         *)
(* PrimeField objects live on a heap: an object's identity is its index,   *)
(* and index 0 stands for "no object".  A FieldElement is the pair of its  *)
(* attributes [value, field].  The session has two variables, self and    *)
(* other, bound to elements; every call takes its operands from them and   *)
(* leaves what it returned in out.                                         *)
(***************************************************************************)
EXTENDS Integers, Sequences, FiniteSets, TLC

VARIABLES
    fields,   \* heap of PrimeField objects: fields[f] is the attribute p of object f
    self,     \* the element bound to the variable self: [value, field], NoElem while unbound
    other,    \* the element bound to the variable other
    out,      \* the element the last call returned, NoElem if it returned none
    scheme,   \* the BLSSignatureScheme context, "None" while none was constructed
    last      \* the last call: [op, args, msg, status, ret]; ret is what it returned
              \* when that is no element: "True", "False" or "None"

vars == <<fields, self, other, out, scheme, last>>

(***************************************************************************)
(* Bounds of the session.                                                  *)
(***************************************************************************)
MaxFields == 2      \* PrimeField objects kept
MinInt == 2         \* integer inputs start at -MinInt
MaxP == 7           \* largest modulus tried in the element session
MaxV == 8           \* largest integer handed to element construction
MaxExp == 7         \* exponents range over -MaxExp..MaxExp
MaxSetupP == 104    \* largest modulus tried in the setup session
MaxCoef == 1        \* curve coefficients A, B range over 0..MaxCoef
MaxKey == 7         \* private keys range over 1..MaxKey
MaxN == 170         \* largest integer handed to the number utilities
MaxArg == 13        \* their arguments start at -MaxArg; second arguments end at MaxArg

FieldInputs == (0 - MinInt)..MaxP
ValueInputs == (0 - MinInt)..MaxV
ExpInputs == (0 - MaxExp)..MaxExp
SetupInputs == (0 - MinInt)..MaxSetupP
CoefInputs == 0..MaxCoef
KeyInputs == 1..MaxKey
Messages == {"hello", "message"}
FirstArgs == (0 - MaxArg)..MaxN
SecondArgs == (0 - MaxArg)..MaxArg

(***************************************************************************)
(* Python integer arithmetic: // rounds toward minus infinity and % takes  *)
(* the sign of the divisor.                                                *)
(***************************************************************************)
PyFloorDiv(a, b) == a \div b

PyMod(a, b) == a - b * PyFloorDiv(a, b)

\* The builtin pow(base, exp, mod) for exp >= 0 and mod > 0.
RECURSIVE PyPow3(_, _, _)
PyPow3(base, exp, mod) ==
    IF exp = 0 THEN PyMod(1, mod)
    ELSE PyMod(PyMod(base, mod) * PyPow3(base, exp - 1, mod), mod)

(***************************************************************************)
(* Outcomes of a call: it returns a value or raises an exception.          *)
(***************************************************************************)
Return(v) == [status |-> "ok", val |-> v]

Raise(kind) == [status |-> kind]

(***************************************************************************)
(* utils.py                                                                *)
(***************************************************************************)
\* The builtin abs.
abs(n) == IF n < 0 THEN 0 - n ELSE n

\* The while loop of gcd: a, b = b, a % b until b is 0.
RECURSIVE gcd_loop(_, _)
gcd_loop(a, b) == IF b # 0 THEN gcd_loop(b, PyMod(a, b)) ELSE a

gcd_no_abs(a, b) == gcd_loop(a, b)

gcd(a, b) == abs(gcd_loop(a, b))

\* The while loop of extended_gcd; the state is the six locals.
RECURSIVE extended_gcd_loop(_, _, _, _, _, _)
extended_gcd_loop(old_r, r, old_x, x, old_y, y) ==
    IF r # 0
    THEN LET q == PyFloorDiv(old_r, r)
         IN  extended_gcd_loop(r, old_r - q * r, x, old_x - q * x, y, old_y - q * y)
    ELSE <<old_r, old_x, old_y>>

extended_gcd_swapped(a, b) == extended_gcd_loop(a, b, 0, 1, 1, 0)

extended_gcd(a, b) == extended_gcd_loop(a, b, 1, 0, 0, 1)

RECURSIVE is_prime_loop_no_i2(_, _)
is_prime_loop_no_i2(n, i) ==
    IF i * i <= n
    THEN IF PyMod(n, i) = 0
         THEN FALSE
         ELSE is_prime_loop_no_i2(n, i + 6)
    ELSE TRUE

\* The while loop of is_prime, entered with i = 5.
RECURSIVE is_prime_loop(_, _)
is_prime_loop(n, i) ==
    IF i * i <= n
    THEN IF PyMod(n, i) = 0 \/ PyMod(n, i + 2) = 0
         THEN FALSE
         ELSE is_prime_loop(n, i + 6)
    ELSE TRUE

is_prime_no_3(n) ==
    IF n <= 1 THEN FALSE
    ELSE IF n <= 3 THEN TRUE
    ELSE IF PyMod(n, 2) = 0 THEN FALSE
    ELSE is_prime_loop(n, 5)

is_prime(n) ==
    IF n <= 1 THEN FALSE
    ELSE IF n <= 3 THEN TRUE
    ELSE IF PyMod(n, 2) = 0 \/ PyMod(n, 3) = 0 THEN FALSE
    ELSE is_prime_loop(n, 5)

\* The inner loops of prime_factors: while n % i == 0: n //= i.  The value
\* is n when the loop is left; for n = 0 the loop is never left.
RECURSIVE prime_factors_divide(_, _)
prime_factors_divide(n, i) ==
    IF PyMod(n, i) = 0 THEN prime_factors_divide(PyFloorDiv(n, i), i) ELSE n

\* The loop of prime_factors over the odd i, entered with i = 3; the value
\* is the locals n and factors when the loop is left.
RECURSIVE prime_factors_loop(_, _, _)
prime_factors_loop(n, i, factors) ==
    IF i * i <= n
    THEN IF PyMod(n, i) = 0
         THEN prime_factors_loop(prime_factors_divide(n, i), i + 2, Append(factors, i))
         ELSE prime_factors_loop(n, i + 2, factors)
    ELSE [n |-> n, factors |-> factors]

prime_factors_no_rest(n) ==
    LET even == PyMod(n, 2) = 0
        l == prime_factors_loop(IF even THEN prime_factors_divide(n, 2) ELSE n, 3,
                                IF even THEN <<2>> ELSE <<>>)
    IN  l.factors

prime_factors(n) ==
    LET even == PyMod(n, 2) = 0
        l == prime_factors_loop(IF even THEN prime_factors_divide(n, 2) ELSE n, 3,
                                IF even THEN <<2>> ELSE <<>>)
    IN  IF l.n > 1 THEN Append(l.factors, l.n) ELSE l.factors

\* The builtin max of a non-empty list.
max(s) == CHOOSE m \in {s[k] : k \in 1..Len(s)} : \A k \in 1..Len(s) : s[k] <= m

largest_prime_factor_first(n) ==
    IF n <= 1 THEN Raise("ValueError")
    ELSE Return(prime_factors(n)[1])

largest_prime_factor(n) ==
    IF n <= 1 THEN Raise("ValueError")
    ELSE Return(max(prime_factors(n)))

(***************************************************************************)
(* extension_field.py: the body of find_embedding_degree is one raise      *)
(* statement.                                                              *)
(***************************************************************************)
find_embedding_degree(p, r) == Raise("NotImplementedError")

(***************************************************************************)
(* prime_field.py: PrimeField                                              *)
(***************************************************************************)
PrimeField_init_no_mod4(p) ==
    IF ~is_prime(p) THEN Raise("ValueError")
    ELSE Return(p)

\* PrimeField.__init__: the value returned is the attribute p of the new object.
PrimeField_init(p) ==
    IF ~is_prime(p) THEN Raise("ValueError")
    ELSE IF PyMod(p, 4) # 3 THEN Raise("ValueError")
    ELSE Return(p)

(***************************************************************************)
(* prime_field.py: FieldElement.  An element is [value, field]; the        *)
(* modulus of element a is fields[a.field].                                *)
(***************************************************************************)
P(a) == fields[a.field]

FieldElement_init_unreduced(value, f) == [value |-> value, field |-> f]

\* FieldElement.__init__(value, field)
FieldElement_init(value, f) == [value |-> PyMod(value, fields[f]), field |-> f]

\* PrimeField.element(value)
element(f, value) == FieldElement_init(PyMod(value, fields[f]), f)

\* self.field != other.field: PrimeField defines no __eq__, so this compares
\* object identity.
SameField(a, b) == a.field = b.field

add(a, b) ==
    IF ~SameField(a, b) THEN Raise("ValueError")
    ELSE Return(FieldElement_init(a.value + b.value, a.field))

sub_unchecked(a, b) == Return(FieldElement_init(a.value - b.value, a.field))

sub(a, b) ==
    IF ~SameField(a, b) THEN Raise("ValueError")
    ELSE Return(FieldElement_init(a.value - b.value, a.field))

mul_as_add(a, b) == add(a, b)

mul(a, b) ==
    IF ~SameField(a, b) THEN Raise("ValueError")
    ELSE Return(FieldElement_init(a.value * b.value, a.field))

neg(a) == Return(FieldElement_init(0 - a.value, a.field))

inverse_unchecked(a) ==
    LET t == extended_gcd(a.value, P(a))
    IN  Return(FieldElement_init(PyMod(t[2], P(a)), a.field))

inverse_takes_y(a) ==
    LET t == extended_gcd(a.value, P(a))
    IN  IF t[1] # 1 THEN Raise("ZeroDivisionError")
        ELSE Return(FieldElement_init(PyMod(t[3], P(a)), a.field))

inverse(a) ==
    LET t == extended_gcd(a.value, P(a))
    IN  IF t[1] # 1 THEN Raise("ZeroDivisionError")
        ELSE Return(FieldElement_init(PyMod(t[2], P(a)), a.field))

truediv_inverse_first(a, b) ==
    LET inv == inverse(b)
    IN  IF inv.status # "ok" THEN inv
        ELSE IF ~SameField(a, b) THEN Raise("ValueError")
        ELSE mul(a, inv.val)

truediv(a, b) ==
    IF ~SameField(a, b) THEN Raise("ValueError")
    ELSE LET inv == inverse(b)
         IN  IF inv.status # "ok" THEN inv ELSE mul(a, inv.val)

RECURSIVE pow_loop_no_square(_, _, _)
pow_loop_no_square(result, base, exp) ==
    IF exp > 0
    THEN pow_loop_no_square(IF PyMod(exp, 2) = 1 THEN mul(result, base).val ELSE result,
                            base,
                            PyFloorDiv(exp, 2))
    ELSE result

\* The while loop of __pow__; every result * base and base * base is a __mul__
\* of two elements of the same field, which cannot raise.
RECURSIVE pow_loop(_, _, _)
pow_loop(result, base, exp) ==
    IF exp > 0
    THEN pow_loop(IF PyMod(exp, 2) = 1 THEN mul(result, base).val ELSE result,
                  mul(base, base).val,
                  PyFloorDiv(exp, 2))
    ELSE result

RECURSIVE pow(_, _)
pow(a, exp) ==
    IF exp < 0
    THEN LET inv == inverse(a)
         IN  IF inv.status # "ok" THEN inv ELSE pow(inv.val, 0 - exp)
    ELSE Return(pow_loop(FieldElement_init(1, a.field),
                         FieldElement_init(a.value, a.field),
                         exp))

is_quadratic_residue(a) == PyPow3(a.value, PyFloorDiv(P(a) - 1, 2), P(a)) = 1

sqrt_unchecked(a) ==
    Return(FieldElement_init(PyPow3(a.value, PyFloorDiv(P(a) + 1, 4), P(a)), a.field))

sqrt_other_root(a) ==
    IF ~is_quadratic_residue(a) THEN Raise("ValueError")
    ELSE Return(FieldElement_init(0 - PyPow3(a.value, PyFloorDiv(P(a) + 1, 4), P(a)),
                                  a.field))

sqrt(a) ==
    IF ~is_quadratic_residue(a) THEN Raise("ValueError")
    ELSE Return(FieldElement_init(PyPow3(a.value, PyFloorDiv(P(a) + 1, 4), P(a)),
                                  a.field))

\* FieldElement.__eq__ on two elements: self.field == other.field compares the
\* PrimeField objects, which define no __eq__, by identity.
eq(a, b) == a.value = b.value /\ a.field = b.field

(***************************************************************************)
(* bls.py: BLSSignatureScheme.  The body of every method is one raise      *)
(* statement, so no call returns.                                          *)
(***************************************************************************)
BLS_init(p, A, B, private_key) == Raise("NotImplementedError")

BLS_sign(ctx, message) == Raise("NotImplementedError")

BLS_verify(ctx, message, signature) == Raise("NotImplementedError")

BLS_get_steps(ctx, message) == Raise("NotImplementedError")

(***************************************************************************)
(* elliptic_curve.py and hash_to_point.py: the bodies of                   *)
(* EllipticCurve.__init__ and hash_to_point are one raise statement each.  *)
(***************************************************************************)
EllipticCurve_init(field, A, B) == Raise("NotImplementedError")

hash_to_point(message, curve, r) == Raise("NotImplementedError")

(***************************************************************************)
(* routes/bls.py: run_bls answers with an HTTP status code.                *)
(***************************************************************************)
\* The except clauses of run_bls, in their order, on the class of the
\* exception that left the try block.
run_bls_except(exc) ==
    IF exc = "NotImplementedError" THEN 501
    ELSE IF exc = "ValueError" THEN 400
    ELSE 500

\* run_bls(request): the status code of the answer.
run_bls(p, A, B, private_key, message) ==
    LET c == BLS_init(p, A, B, private_key)
        s == BLS_get_steps(c.val, message)
        r == IF c.status # "ok" THEN c ELSE s
    IN  IF r.status = "ok" THEN 200 ELSE run_bls_except(r.status)

(***************************************************************************)
(* The session.                                                            *)
(***************************************************************************)
NoElem == [value |-> 0, field |-> 0]

Bound(a) == a.field # 0

Call(op, args, msg, status, ret) ==
    [op |-> op, args |-> args, msg |-> msg, status |-> status, ret |-> ret]

Init ==
    /\ fields = <<>>
    /\ self = NoElem
    /\ other = NoElem
    /\ out = NoElem
    /\ scheme = "None"
    /\ last = Call("start", <<>>, "", "ok", "None")

ElementCall_in_place(op, args, r) ==
    /\ out' = IF r.status = "ok" THEN r.val ELSE NoElem
    /\ self' = IF r.status = "ok" THEN r.val ELSE self
    /\ last' = Call(op, args, "", r.status, "None")
    /\ UNCHANGED <<fields, other, scheme>>

\* A call on elements: it returns a new element or raises.  No method of
\* FieldElement assigns to an attribute of self, other or the field.
ElementCall(op, args, r) ==
    /\ out' = IF r.status = "ok" THEN r.val ELSE NoElem
    /\ last' = Call(op, args, "", r.status, "None")
    /\ UNCHANGED <<fields, self, other, scheme>>

\* A call on elements that returns a bool.
BoolCall(op, truth) ==
    /\ out' = NoElem
    /\ last' = Call(op, <<>>, "", "ok", IF truth THEN "True" ELSE "False")
    /\ UNCHANGED <<fields, self, other, scheme>>

Fids == 1..Len(fields)

\* F = PrimeField(p)
ConstructField(p) ==
    LET r == PrimeField_init(p)
    IN  /\ r.status = "ok" => Len(fields) < MaxFields
        /\ fields' = IF r.status = "ok" THEN Append(fields, r.val) ELSE fields
        /\ last' = Call("PrimeField", <<p>>, "", r.status, "None")
        /\ out' = NoElem
        /\ UNCHANGED <<self, other, scheme>>

NewField == \E p \in FieldInputs : ConstructField(p)

\* F.element(v)
Element == \E f \in Fids, v \in ValueInputs :
    ElementCall("element", <<f, v>>, Return(element(f, v)))

\* FieldElement(v, F)
Construct == \E f \in Fids, v \in ValueInputs :
    ElementCall("FieldElement", <<f, v>>, Return(FieldElement_init(v, f)))

\* self = <the element just returned>
BindSelf ==
    /\ Bound(out)
    /\ self' = out
    /\ last' = Call("bind", <<>>, "", "ok", "None")
    /\ UNCHANGED <<fields, other, out, scheme>>

\* other = <the element just returned>
BindOther ==
    /\ Bound(out)
    /\ other' = out
    /\ last' = Call("bind", <<>>, "", "ok", "None")
    /\ UNCHANGED <<fields, self, out, scheme>>

\* self + other, self - other, self * other, self / other
Add == Bound(self) /\ Bound(other) /\ ElementCall("add", <<>>, add(self, other))

Sub == Bound(self) /\ Bound(other) /\ ElementCall("sub", <<>>, sub(self, other))

Mul == Bound(self) /\ Bound(other) /\ ElementCall("mul", <<>>, mul(self, other))

Div == Bound(self) /\ Bound(other) /\ ElementCall("truediv", <<>>, truediv(self, other))

\* -self, self ** e, self.inverse(), self.sqrt()
Neg == Bound(self) /\ ElementCall("neg", <<>>, neg(self))

Pow == \E e \in ExpInputs : Bound(self) /\ ElementCall("pow", <<e>>, pow(self, e))

Inverse == Bound(self) /\ ElementCall("inverse", <<>>, inverse(self))

Sqrt == Bound(self) /\ ElementCall("sqrt", <<>>, sqrt(self))

\* The exception the last core call raised leaves the try block of run_bls:
\* the host answers with the status code of the matching except clause.
RunBlsExcept ==
    /\ last.status \notin {"ok", "HTTPException"}
    /\ last' = Call("run_bls", <<last.op, last.status>>, "", "HTTPException",
                    run_bls_except(last.status))
    /\ UNCHANGED <<fields, self, other, out, scheme>>

\* self.is_quadratic_residue(), self == other
IsQR == Bound(self) /\ BoolCall("is_quadratic_residue", is_quadratic_residue(self))

Eq == Bound(self) /\ Bound(other) /\ BoolCall("eq", eq(self, other))

Next ==
    \/ NewField
    \/ Element
    \/ Construct
    \/ BindSelf
    \/ BindOther
    \/ Add
    \/ Sub
    \/ Mul
    \/ Div
    \/ Neg
    \/ Pow
    \/ Inverse
    \/ Sqrt
    \/ IsQR
    \/ Eq
    \/ RunBlsExcept

Spec == Init /\ [][Next]_vars

(***************************************************************************)
(* The setup session: one call of a constructor, or of the sign-and-verify *)
(* round trip, on parameters p, A, B, private_key and a message drawn at   *)
(* the start.                                                              *)
(***************************************************************************)
InitSetup ==
    /\ fields = <<>>
    /\ self = NoElem
    /\ other = NoElem
    /\ out = NoElem
    /\ scheme = "None"
    /\ \E p \in SetupInputs, A \in CoefInputs, B \in CoefInputs,
          k \in KeyInputs, m \in Messages :
            last = Call("input", <<p, A, B, k>>, m, "ok", "None")

\* F = PrimeField(p)
NewFieldSetup ==
    /\ last.op = "input"
    /\ ConstructField(last.args[1])

\* scheme = BLSSignatureScheme(p, A, B, private_key)
SchemeSetup ==
    /\ last.op = "input"
    /\ LET r == BLS_init(last.args[1], last.args[2], last.args[3], last.args[4])
       IN  /\ scheme' = IF r.status = "ok" THEN r.val ELSE scheme
           /\ last' = Call("BLSSignatureScheme", last.args, last.msg, r.status, "None")
    /\ UNCHANGED <<fields, self, other, out>>

\* scheme = BLSSignatureScheme(p, A, B, private_key); sig = scheme.sign(m);
\* scheme.verify(m, sig).  The first statement that raises ends the sequence.
SignVerify ==
    /\ last.op = "input"
    /\ LET c == BLS_init(last.args[1], last.args[2], last.args[3], last.args[4])
           s == BLS_sign(c.val, last.msg)
           v == BLS_verify(c.val, last.msg, s.val)
           r == IF c.status # "ok" THEN c ELSE IF s.status # "ok" THEN s ELSE v
       IN  /\ scheme' = IF c.status = "ok" THEN c.val ELSE scheme
           /\ last' = Call("verify(sign)", last.args, last.msg, r.status,
                           IF r.status = "ok" THEN r.val ELSE "None")
    /\ UNCHANGED <<fields, self, other, out>>

\* POST /api/bls/run with the parameters and the message
RunBls ==
    /\ last.op = "input"
    /\ LET code == run_bls(last.args[1], last.args[2], last.args[3], last.args[4], last.msg)
       IN  last' = Call("run_bls", last.args, last.msg,
                        IF code = 200 THEN "ok" ELSE "HTTPException", code)
    /\ UNCHANGED <<fields, self, other, out, scheme>>

\* F = PrimeField(p); curve = EllipticCurve(F, A, B);
\* hash_to_point(m, curve, r), with the drawn private_key taken as r.  The
\* first statement that raises ends the sequence.
HashToPoint ==
    /\ last.op = "input"
    /\ LET f == PrimeField_init(last.args[1])
           c == EllipticCurve_init(1, last.args[2], last.args[3])
           h == hash_to_point(last.msg, c.val, last.args[4])
           r == IF f.status # "ok" THEN f ELSE IF c.status # "ok" THEN c ELSE h
       IN  /\ fields' = IF f.status = "ok" THEN <<f.val>> ELSE fields
           /\ last' = Call("hash_to_point", last.args, last.msg, r.status,
                           IF r.status = "ok" THEN r.val ELSE "None")
    /\ UNCHANGED <<self, other, out, scheme>>

NextSetup ==
    \/ NewFieldSetup
    \/ SchemeSetup
    \/ SignVerify
    \/ RunBls
    \/ HashToPoint

SpecSetup == InitSetup /\ [][NextSetup]_vars

(***************************************************************************)
(* The number utilities: the arguments are drawn at the start and one      *)
(* function of utils.py is called with them; last.ret is what it returned. *)
(***************************************************************************)
InitUtils ==
    /\ fields = <<>>
    /\ self = NoElem
    /\ other = NoElem
    /\ out = NoElem
    /\ scheme = "None"
    /\ \E a \in FirstArgs, b \in SecondArgs :
            last = Call("input", <<a, b>>, "", "ok", "None")

UtilCall(op, args, ret) ==
    /\ last.op = "input"
    /\ last' = Call(op, args, "", "ok", ret)
    /\ UNCHANGED <<fields, self, other, out, scheme>>

\* gcd(a, b)
Gcd == UtilCall("gcd", last.args, gcd(last.args[1], last.args[2]))

\* extended_gcd(a, b)
ExtendedGcd ==
    UtilCall("extended_gcd", last.args, extended_gcd(last.args[1], last.args[2]))

\* is_prime(n)
IsPrimeCall ==
    UtilCall("is_prime", <<last.args[1]>>,
             IF is_prime(last.args[1]) THEN "True" ELSE "False")

\* prime_factors(n).  For n = 0 the loop "while n % 2 == 0: n //= 2" is
\* never left, so the call does not return.
PrimeFactors ==
    /\ last.args[1] # 0
    /\ UtilCall("prime_factors", <<last.args[1]>>, prime_factors(last.args[1]))

\* A call of a function that returns a value or raises.
UtilOutcome(op, args, r) ==
    /\ last.op = "input"
    /\ last' = Call(op, args, "", r.status, IF r.status = "ok" THEN r.val ELSE "None")
    /\ UNCHANGED <<fields, self, other, out, scheme>>

\* largest_prime_factor(n)
LargestPrimeFactor ==
    UtilOutcome("largest_prime_factor", <<last.args[1]>>,
                largest_prime_factor(last.args[1]))

\* ExtensionField.find_embedding_degree(p, r)
FindEmbeddingDegree ==
    UtilOutcome("find_embedding_degree", last.args,
                find_embedding_degree(last.args[1], last.args[2]))

NextUtils ==
    \/ Gcd
    \/ ExtendedGcd
    \/ IsPrimeCall
    \/ PrimeFactors
    \/ LargestPrimeFactor
    \/ FindEmbeddingDegree

SpecUtils == InitUtils /\ [][NextUtils]_vars

(***************************************************************************)
(* The number utilities, statement by statement: the same arguments, but a *)
(* call is entered and then runs one loop iteration per step.  While a     *)
(* call runs, last.status is "running" and last.ret holds its locals; when *)
(* it returns, last.ret is the value returned.                             *)
(***************************************************************************)
Running(op) == last.op = op /\ last.status = "running"

Enter(op, locals) ==
    /\ last.op = "input"
    /\ last' = Call(op, last.args, "", "running", locals)
    /\ UNCHANGED <<fields, self, other, out, scheme>>

Goto(locals) ==
    /\ last' = [last EXCEPT !.ret = locals]
    /\ UNCHANGED <<fields, self, other, out, scheme>>

Finish(v) ==
    /\ last' = [last EXCEPT !.status = "ok", !.ret = v]
    /\ UNCHANGED <<fields, self, other, out, scheme>>

\* gcd(a, b) is called.
GcdEnter == Enter("gcd", [a |-> last.args[1], b |-> last.args[2]])

\* while b != 0: a, b = b, a % b; then return abs(a)
GcdStep ==
    /\ Running("gcd")
    /\ LET l == last.ret
       IN  IF l.b # 0
           THEN Goto([a |-> l.b, b |-> PyMod(l.a, l.b)])
           ELSE Finish(abs(l.a))

\* extended_gcd(a, b) is called: old_r, r = a, b; old_x, x = 1, 0;
\* old_y, y = 0, 1
ExtendedGcdEnter ==
    Enter("extended_gcd", [old_r |-> last.args[1], r |-> last.args[2],
                           old_x |-> 1, x |-> 0, old_y |-> 0, y |-> 1])

\* while r != 0: one iteration; then return old_r, old_x, old_y
ExtendedGcdStep ==
    /\ Running("extended_gcd")
    /\ LET l == last.ret
           q == PyFloorDiv(l.old_r, l.r)
       IN  IF l.r # 0
           THEN Goto([old_r |-> l.r, r |-> l.old_r - q * l.r,
                      old_x |-> l.x, x |-> l.old_x - q * l.x,
                      old_y |-> l.y, y |-> l.old_y - q * l.y])
           ELSE Finish(<<l.old_r, l.old_x, l.old_y>>)

\* is_prime(n) is called: the tests before the loop, then i = 5.
IsPrimeEnter == Enter("is_prime", [n |-> last.args[1], i |-> 0])

IsPrimeStep ==
    /\ Running("is_prime")
    /\ LET l == last.ret
       IN  IF l.i = 0
           THEN IF l.n <= 1 THEN Finish("False")
                ELSE IF l.n <= 3 THEN Finish("True")
                ELSE IF PyMod(l.n, 2) = 0 \/ PyMod(l.n, 3) = 0 THEN Finish("False")
                ELSE Goto([l EXCEPT !.i = 5])
           ELSE IF l.i * l.i <= l.n
                THEN IF PyMod(l.n, l.i) = 0 \/ PyMod(l.n, l.i + 2) = 0
                     THEN Finish("False")
                     ELSE Goto([l EXCEPT !.i = l.i + 6])
                ELSE Finish("True")

\* prime_factors(n) is called: factors = []
PrimeFactorsEnter ==
    Enter("prime_factors", [pc |-> "if2", n |-> last.args[1], i |-> 0, factors |-> <<>>])

\* One test of prime_factors and the statement it guards.  pc names the
\* test the call is at: "if2" is "if n % 2 == 0", "while2" is
\* "while n % 2 == 0", "while" is "while i * i <= n", "while_i" is
\* "while n % i == 0" and "rest" is "if n > 1".  For n = 0 the statement
\* n //= 2 of "while2" leaves n at 0: the call repeats it for ever and its
\* locals never change again.
PrimeFactorsStep ==
    /\ Running("prime_factors")
    /\ LET l == last.ret
       IN  CASE l.pc = "if2" ->
                    IF PyMod(l.n, 2) = 0
                    THEN Goto([l EXCEPT !.pc = "while2", !.factors = Append(l.factors, 2)])
                    ELSE Goto([l EXCEPT !.pc = "while", !.i = 3])
             [] l.pc = "while2" ->
                    IF PyMod(l.n, 2) = 0
                    THEN Goto([l EXCEPT !.n = PyFloorDiv(l.n, 2)])
                    ELSE Goto([l EXCEPT !.pc = "while", !.i = 3])
             [] l.pc = "while" ->
                    IF l.i * l.i <= l.n
                    THEN IF PyMod(l.n, l.i) = 0
                         THEN Goto([l EXCEPT !.pc = "while_i",
                                             !.factors = Append(l.factors, l.i)])
                         ELSE Goto([l EXCEPT !.i = l.i + 2])
                    ELSE Goto([l EXCEPT !.pc = "rest"])
             [] l.pc = "while_i" ->
                    IF PyMod(l.n, l.i) = 0
                    THEN Goto([l EXCEPT !.n = PyFloorDiv(l.n, l.i)])
                    ELSE Goto([l EXCEPT !.pc = "while", !.i = l.i + 2])
             [] l.pc = "rest" ->
                    Finish(IF l.n > 1 THEN Append(l.factors, l.n) ELSE l.factors)

NextRun ==
    \/ GcdEnter
    \/ GcdStep
    \/ ExtendedGcdEnter
    \/ ExtendedGcdStep
    \/ IsPrimeEnter
    \/ IsPrimeStep
    \/ PrimeFactorsEnter
    \/ PrimeFactorsStep

\* A call that was entered keeps executing.
SpecRun == InitUtils /\ [][NextRun]_vars /\ WF_vars(NextRun)

(***************************************************************************)
(* Reference notions the claims are stated with.                           *)
(***************************************************************************)
\* n is a prime number.
IsPrime(n) == n > 1 /\ \A d \in 2..(n - 1) : n % d # 0

\* d divides n, for d > 0.
Divides(d, n) == n % d = 0

\* The greatest common divisor of a and b: the largest positive integer
\* dividing both, and 0 for a = b = 0.
GreatestCommonDivisor(a, b) ==
    IF a = 0 /\ b = 0 THEN 0
    ELSE LET m == IF abs(a) > abs(b) THEN abs(a) ELSE abs(b)
             common == {d \in 1..m : Divides(d, a) /\ Divides(d, b)}
         IN  CHOOSE d \in common : \A e \in common : e <= d

\* The product of the integers of a list.
RECURSIVE Product(_)
Product(f) == IF f = <<>> THEN 1 ELSE Head(f) * Product(Tail(f))

\* a^e mod r for e >= 0 and r > 0.
RECURSIVE PowerMod(_, _, _)
PowerMod(a, e, r) == IF e = 0 THEN 1 % r ELSE ((a % r) * PowerMod(a, e - 1, r)) % r

\* The smallest positive k with p^k mod r = 1, for a prime r not dividing p
\* (such a k exists and is at most r - 1).
EmbeddingDegree(p, r) ==
    CHOOSE k \in 1..(r - 1) :
        /\ PowerMod(p, k, r) = 1
        /\ \A j \in 1..(k - 1) : PowerMod(p, j, r) # 1

\* The integer a^e for e >= 0, with a^0 = 1 for every a.
RECURSIVE Power(_, _)
Power(a, e) == IF e = 0 THEN 1 ELSE a * Power(a, e - 1)

\* The curve y^2 = x^3 + Ax + B is singular over F_p.
Singular(p, A, B) == (4 * A * A * A + 27 * B * B) % p = 0

\* Points of the curve y^2 = x^3 + Ax + B over F_p: [x, y, inf], with inf
\* true for the point at infinity O.
Infinity == [x |-> 0, y |-> 0, inf |-> TRUE]

OnCurve(pt, p, A, B) ==
    pt.inf \/ (pt.y * pt.y - (pt.x * pt.x * pt.x + A * pt.x + B)) % p = 0

\* The inverse of a modulo the prime p, for a not divisible by p.
ModInverse(a, p) == CHOOSE b \in 1..(p - 1) : (a * b) % p = 1

\* The group law of the curve.
PointAdd(P1, P2, p, A) ==
    IF P1.inf THEN P2
    ELSE IF P2.inf THEN P1
    ELSE IF P1.x = P2.x /\ (P1.y + P2.y) % p = 0 THEN Infinity
    ELSE LET slope == IF P1.x = P2.x
                      THEN ((3 * P1.x * P1.x + A) * ModInverse(2 * P1.y, p)) % p
                      ELSE ((P2.y - P1.y) * ModInverse(P2.x - P1.x, p)) % p
             x3 == (slope * slope - P1.x - P2.x) % p
         IN  [x |-> x3, y |-> (slope * (P1.x - x3) - P1.y) % p, inf |-> FALSE]

\* n * pt for n >= 0.
RECURSIVE ScalarMul(_, _, _, _)
ScalarMul(n, pt, p, A) ==
    IF n = 0 THEN Infinity
    ELSE LET half == ScalarMul(n \div 2, pt, p, A)
             double == PointAdd(half, half, p, A)
         IN  IF n % 2 = 1 THEN PointAdd(pt, double, p, A) ELSE double

\* The kind of the error a core operation signals with an exception.
ErrorKind(op, exc) ==
    IF exc = "ZeroDivisionError" THEN "divide-by-zero"
    ELSE IF exc = "ValueError" /\ op = "sqrt" THEN "not-a-square"
    ELSE IF exc = "ValueError" /\ op \in {"add", "sub", "mul", "truediv"}
         THEN "mismatched-fields"
    ELSE IF exc = "ValueError" /\ op = "PrimeField" THEN "invalid-parameter"
    ELSE "other"

\* Parameters the scheme is specified to accept.
ValidParams(p, A, B, k) ==
    /\ IsPrime(p)
    /\ p % 4 = 3
    /\ ~Singular(p, A, B)
    /\ k > 0

(***************************************************************************)
(* BLS orchestrator                                                        *)
(***************************************************************************)
\* C1: for a scheme constructed with valid parameters and every message m,
\* verify(m, sign(m)) returns True.
C1_VerifyOfSignIsTrue ==
    (last.op = "verify(sign)" /\ ValidParams(last.args[1], last.args[2], last.args[3], last.args[4]))
        => (last.status = "ok" /\ last.ret = "True")

\* C2: BLSSignatureScheme(103, 1, 0, 7) succeeds and the context holds
\* group_order = 104, r = 13, cofactor = 8 and k = 2.
C2_SetupExample ==
    (last.op = "BLSSignatureScheme" /\ last.args = <<103, 1, 0, 7>>)
        => /\ last.status = "ok"
           /\ scheme # "None"
           /\ scheme.group_order = 104
           /\ scheme.r = 13
           /\ scheme.cofactor = 8
           /\ scheme.k = 2

\* C3: BLSSignatureScheme raises ValueError and produces no context when p
\* is not prime, when p is a prime with p mod 4 # 3, and when the curve is
\* singular.
C3_InvalidSetupRaisesValueError ==
    (/\ last.op = "BLSSignatureScheme"
     /\ \/ ~IsPrime(last.args[1])
        \/ last.args[1] % 4 # 3
        \/ Singular(last.args[1], last.args[2], last.args[3]))
        => (last.status = "ValueError" /\ scheme = "None")

(***************************************************************************)
(* PrimeField                                                              *)
(***************************************************************************)
\* C4: PrimeField(p) returns a field with modulus p exactly when p is prime
\* and p mod 4 = 3; for every other integer it raises ValueError and no
\* field is created.
C4_PrimeFieldAcceptsExactly ==
    last.op = "PrimeField" =>
        IF IsPrime(last.args[1]) /\ last.args[1] % 4 = 3
        THEN last.status = "ok" /\ fields = <<last.args[1]>>
        ELSE last.status = "ValueError" /\ fields = <<>>

\* PrimeField(103) has returned the field with p = 103.
C4_Witness ==
    /\ last.op = "PrimeField"
    /\ last.args = <<103>>
    /\ last.status = "ok"
    /\ fields = <<103>>

\* C5 as stated: every constructed PrimeField has p > 3, p prime and
\* p mod 4 = 3.
C5_FieldInvariantAsStated ==
    \A f \in Fids : fields[f] > 3 /\ IsPrime(fields[f]) /\ fields[f] % 4 = 3

\* C5 amended: every constructed PrimeField has p >= 3, p prime and
\* p mod 4 = 3, at every point of the session.
C5_FieldInvariant ==
    \A f \in Fids : fields[f] >= 3 /\ IsPrime(fields[f]) /\ fields[f] % 4 = 3

\* Two fields were constructed, one of them F_3, and elements were operated on.
C5_Witness ==
    /\ Len(fields) = 2
    /\ \E f \in Fids : fields[f] = 3
    /\ last.op = "mul"
    /\ last.status = "ok"

(***************************************************************************)
(* FieldElement                                                            *)
(***************************************************************************)
\* The elements the session holds.
Held == {a \in {self, other, out} : Bound(a)}

\* C6: every FieldElement has 0 <= value < p, whether made by F.element(v)
\* or FieldElement(v, F) from any integer v or returned by any sequence of
\* +, -, *, /, unary -, **, inverse and sqrt.
C6_ValueInRange == \A a \in Held : 0 <= a.value /\ a.value < P(a)

\* self - other was computed where the integer difference is negative.
C6_Witness ==
    /\ last.op = "sub"
    /\ last.status = "ok"
    /\ self.value < other.value
    /\ out.value = self.value - other.value + P(self)

\* C7: for a, b, c of one field, (a+b)+c = a+(b+c), a*(b+c) = a*b + a*c and
\* a + (-a) = 0; a and b are the session's operands and c is every element
\* of their field.
C7_RingLaws ==
    (Bound(self) /\ Bound(other) /\ SameField(self, other)) =>
        \A v \in ValueInputs :
            LET a == self
                b == other
                c == element(self.field, v)
            IN  /\ add(add(a, b).val, c) = add(a, add(b, c).val)
                /\ add(a, b).status = "ok"
                /\ mul(a, add(b, c).val) = add(mul(a, b).val, mul(a, c).val)
                /\ mul(a, b).status = "ok"
                /\ add(a, neg(a).val) = Return(element(a.field, 0))

\* self * other was computed in F_7 with neither operand 0 or 1.
C7_Witness ==
    /\ last.op = "mul"
    /\ last.status = "ok"
    /\ P(self) = 7
    /\ self.value > 1
    /\ other.value > 1
    /\ out.value = (self.value * other.value) % 7

\* C8: for a # 0, a * a.inverse() = 1 and a ** (p-1) = 1; for b # 0 of the
\* field of a, (a / b) * b = a.
C8_Inverse ==
    /\ (Bound(self) /\ self.value # 0) =>
            /\ inverse(self).status = "ok"
            /\ mul(self, inverse(self).val) = Return(element(self.field, 1))
            /\ pow(self, P(self) - 1) = Return(element(self.field, 1))
    /\ (Bound(self) /\ Bound(other) /\ SameField(self, other) /\ other.value # 0) =>
            /\ truediv(self, other).status = "ok"
            /\ mul(truediv(self, other).val, other) = Return(self)
    /\ (last.op = "inverse" /\ self.value # 0) =>
            /\ last.status = "ok"
            /\ (out.value * self.value) % P(self) = 1
    /\ (last.op = "truediv" /\ SameField(self, other) /\ other.value # 0) =>
            /\ last.status = "ok"
            /\ (out.value * other.value) % P(self) = self.value

\* self / other was computed in F_7 with neither operand 0 or 1.
C8_Witness ==
    /\ last.op = "truediv"
    /\ last.status = "ok"
    /\ P(self) = 7
    /\ self.value > 1
    /\ other.value > 1
    /\ self.value # other.value

\* C9: for e >= 0, (a ** e).value = a^e mod p, with a ** 0 = 1 for every a;
\* for e < 0 and a # 0, a ** e = a.inverse() ** (-e).
C9_Pow ==
    last.op = "pow" =>
        LET e == last.args[1]
        IN  /\ e >= 0 =>
                /\ last.status = "ok"
                /\ out = [value |-> Power(self.value, e) % P(self), field |-> self.field]
            /\ e = 0 => out.value = 1
            /\ (e < 0 /\ self.value # 0) =>
                /\ last.status = "ok"
                /\ Return(out) = pow(inverse(self).val, 0 - e)
                /\ (out.value * Power(self.value, 0 - e)) % P(self) = 1

\* 3 ** 5 was computed in F_7.
C9_Witness ==
    /\ last.op = "pow"
    /\ last.args = <<5>>
    /\ P(self) = 7
    /\ self.value = 3
    /\ out.value = 5

\* C10: for the zero element z and any a of its field, z.inverse(), a / z
\* and z ** e with e < 0 raise ZeroDivisionError and return no element.
C10_ZeroHasNoInverse ==
    /\ (last.op = "inverse" /\ self.value = 0) =>
            (last.status = "ZeroDivisionError" /\ out = NoElem)
    /\ (last.op = "truediv" /\ SameField(self, other) /\ other.value = 0) =>
            (last.status = "ZeroDivisionError" /\ out = NoElem)
    /\ (last.op = "pow" /\ last.args[1] < 0 /\ self.value = 0) =>
            (last.status = "ZeroDivisionError" /\ out = NoElem)

\* a / z was called with a # 0 and z the zero of the same field.
C10_Witness ==
    /\ last.op = "truediv"
    /\ SameField(self, other)
    /\ self.value # 0
    /\ other.value = 0
    /\ last.status = "ZeroDivisionError"

(***************************************************************************)
(* Quadratic residues and square roots                                     *)
(***************************************************************************)
\* a is a square in its field: b * b = a for some b of the field.
IsSquare(a) == \E b \in 0..(P(a) - 1) : (b * b) % P(a) = a.value

\* C11: is_quadratic_residue() returns True exactly when the element is a
\* square in F_p; zero, the square of zero, is a quadratic residue.
C11_QRIffSquare ==
    last.op = "is_quadratic_residue" => (last.ret = "True" <=> IsSquare(self))

\* C12: for every a, a*a is a quadratic residue and sqrt(a*a) returns s with
\* s*s = a*a: sqrt of any square, zero included, returns a root of it.
C12_SqrtRoundTrip ==
    (last.op = "sqrt" /\ IsSquare(self)) =>
        /\ is_quadratic_residue(self)
        /\ last.status = "ok"
        /\ (out.value * out.value) % P(self) = self.value

\* C13: sqrt of an element that is not a square raises ValueError and
\* returns no element.
C13_SqrtOfNonSquareRaises ==
    (last.op = "sqrt" /\ ~IsSquare(self)) =>
        (last.status = "ValueError" /\ out = NoElem)

\* sqrt was called on 3 in F_7, whose squares are 0, 1, 2 and 4.
C13_Witness ==
    /\ last.op = "sqrt"
    /\ P(self) = 7
    /\ self.value = 3
    /\ last.status = "ValueError"

(***************************************************************************)
(* Equality and operands of different fields                               *)
(***************************************************************************)
\* C14: a == b holds if and only if a.value = b.value and a.field.p =
\* b.field.p, also when the two fields are separately constructed
\* PrimeField objects with the same p.
C14_EqByModulusAndValue ==
    last.op = "eq" =>
        (last.ret = "True" <=> (self.value = other.value /\ P(self) = P(other)))

\* C15: for a and b whose fields have different p, each of a + b, a - b,
\* a * b and a / b raises ValueError and produces no element.
C15_CrossFieldRaises ==
    (last.op \in {"add", "sub", "mul", "truediv"} /\ P(self) # P(other)) =>
        (last.status = "ValueError" /\ out = NoElem)

\* An element of F_7 was subtracted from an element of F_3.
C15_Witness ==
    /\ last.op = "sub"
    /\ P(self) = 3
    /\ P(other) = 7
    /\ last.status = "ValueError"

(***************************************************************************)
(* Number utilities                                                        *)
(***************************************************************************)
\* C16: for all integers a and b, gcd(a, b) is the non-negative greatest
\* common divisor: it divides both, gcd(0, 0) = 0, gcd(0, b) = |b|, and
\* gcd(a, b) = gcd(b, a).
C16_Gcd ==
    last.op = "gcd" =>
        LET a == last.args[1]
            b == last.args[2]
            g == last.ret
        IN  /\ g >= 0
            /\ g = GreatestCommonDivisor(a, b)
            /\ g # 0 => (Divides(g, a) /\ Divides(g, b))
            /\ (a = 0 /\ b = 0) => g = 0
            /\ a = 0 => g = abs(b)
            /\ g = gcd(b, a)

\* gcd was called with a negative and a positive argument, and with zero.
C16_Witness ==
    /\ last.op = "gcd"
    /\ last.args = <<0 - 12, 8>>
    /\ last.ret = 4

\* C17: for all integers a and b, extended_gcd(a, b) returns (g, x, y)
\* with a * x + b * y = g.
C17_Bezout ==
    last.op = "extended_gcd" =>
        last.args[1] * last.ret[2] + last.args[2] * last.ret[3] = last.ret[1]

C17_Witness ==
    /\ last.op = "extended_gcd"
    /\ last.args = <<0 - 7, 0 - 2>>
    /\ last.ret = <<0 - 1, 1, 0 - 3>>

\* C18: for all integers a and b, the g of extended_gcd(a, b) is gcd(a, b),
\* hence non-negative.
C18_ExtendedGcdIsGcd ==
    last.op = "extended_gcd" =>
        /\ last.ret[1] = gcd(last.args[1], last.args[2])
        /\ last.ret[1] >= 0

\* C19: for every integer n, is_prime(n) returns True if and only if n is a
\* prime number.
C19_IsPrimeExact ==
    last.op = "is_prime" => (last.ret = "True" <=> IsPrime(last.args[1]))

\* is_prime ran its loop up to i = 11 and found the divisor i + 2 = 13.
C19_Witness ==
    /\ last.op = "is_prime"
    /\ last.args = <<169>>
    /\ last.ret = "False"

C21_FactorsWithMultiplicity ==
    (last.op = "prime_factors" /\ last.args[1] >= 2) =>
        /\ \A k \in 1..Len(last.ret) : IsPrime(last.ret[k])
        /\ Product(last.ret) = last.args[1]
        /\ last.args[1] = 12 => last.ret = <<2, 2, 3>>

\* C22: for n >= 2, largest_prime_factor(n) returns a prime r dividing n
\* such that no prime greater than r divides n; for n <= 1 it raises
\* ValueError and returns nothing.
C22_LargestPrimeFactor ==
    last.op = "largest_prime_factor" =>
        LET n == last.args[1]
            r == last.ret
        IN  IF n >= 2
            THEN /\ last.status = "ok"
                 /\ IsPrime(r)
                 /\ Divides(r, n)
                 /\ \A q \in (r + 1)..n : ~(IsPrime(q) /\ Divides(q, n))
            ELSE /\ last.status = "ValueError"
                 /\ r = "None"

\* The group order of the setup example: 104 = 2^3 * 13.
C22_Witness ==
    /\ last.op = "largest_prime_factor"
    /\ last.args = <<104>>
    /\ last.status = "ok"
    /\ last.ret = 13

\* C25: for every prime r that does not divide p, find_embedding_degree(p, r)
\* returns the smallest positive k with p^k mod r = 1 (k = 2 for p = 103,
\* r = 13).
C25_EmbeddingDegree ==
    (/\ last.op = "find_embedding_degree"
     /\ IsPrime(last.args[2])
     /\ ~Divides(last.args[2], last.args[1])) =>
        /\ last.status = "ok"
        /\ last.ret = EmbeddingDegree(last.args[1], last.args[2])
        /\ last.args = <<103, 13>> => last.ret = 2

C24_InvalidParamsGive400 ==
    (/\ last.op = "run_bls"
     /\ (~IsPrime(last.args[1]) \/ Singular(last.args[1], last.args[2], last.args[3]))) =>
        last.ret = 400

(***************************************************************************)
(* Hashing to the curve                                                    *)
(***************************************************************************)
\* C26: for every message m, hash_to_point(m, curve, r) returns a point H on
\* the curve with r * H = O, and a second call with the same message
\* returns an equal point.
C26_HashToPoint ==
    (/\ last.op = "hash_to_point"
     /\ ValidParams(last.args[1], last.args[2], last.args[3], last.args[4])) =>
        /\ last.status = "ok"
        /\ OnCurve(last.ret, last.args[1], last.args[2], last.args[3])
        /\ ScalarMul(last.args[4], last.ret, last.args[1], last.args[2]).inf
        /\ hash_to_point(last.msg, EllipticCurve_init(1, last.args[2], last.args[3]).val,
                         last.args[4]) = Return(last.ret)

(***************************************************************************)
(* Termination                                                             *)
(***************************************************************************)
\* C27: every call of gcd, extended_gcd, is_prime and prime_factors runs to
\* completion, for every integer argument including 0 and negative values.
C27_UtilitiesTerminate ==
    (last.status = "running") ~> (last.status = "ok")

C29_PrincipalRoot ==
    (last.op = "sqrt" /\ last.status = "ok" /\ self.value # 0) =>
        /\ is_quadratic_residue(out)
        /\ ~is_quadratic_residue(neg(out).val)
        /\ sqrt(self) = Return(out)

\* sqrt(2) in F_7 returned 4 = 2^2, not 3.
C29_Witness ==
    /\ last.op = "sqrt"
    /\ P(self) = 7
    /\ self.value = 2
    /\ out.value = 4

\* C30: in a / b the field check precedes the zero check: when b is the zero
\* of a field other than a's, a / b raises ValueError; ZeroDivisionError is
\* raised only when both operands belong to the same field.
C30_FieldCheckFirst ==
    last.op = "truediv" =>
        /\ (other.value = 0 /\ other.field # self.field) => last.status = "ValueError"
        /\ last.status = "ZeroDivisionError" =>
               (other.field = self.field /\ other.value = 0)

\* An element of F_7 was divided by the zero of F_3.
C30_Witness ==
    /\ last.op = "truediv"
    /\ P(self) = 7
    /\ P(other) = 3
    /\ other.value = 0
    /\ last.status = "ValueError"

====
